---- MODULE Spec2Model ----
(***************************************************************************)
(* Model of src/main.py (nfc-jukebox): the MP3Player object, the status    *)
(* LED, the terminal mode kept by KeyPoller, and the polling loop of       *)
(* MP3Player.run with its key commands, tag reads and backend exits.       *)
(*                                                                         *)
(* Handlers are written as operators on a record w of everything a handler *)
(* can touch (the fields of self, the LED, the terminal, the pending       *)
(* exception); an action of the loop applies a handler to the current      *)
(* values and stores the result.                                           *)
(***************************************************************************)
EXTENDS Integers, Sequences, FiniteSets, TLC

VARIABLES
    process,          \* self.process: NoProcess or a decoder process handle
    playing,          \* self.playing
    paused,           \* self.paused
    current_position, \* self.current_position
    current_subdir,   \* self.current_subdir (unset until load_directory)
    playlist,         \* self.playlist       (unset until load_directory)
    current_track,    \* self.current_track  (unset until a load succeeds)
    led,              \* level of LED_PIN
    term,             \* terminal mode of stdin: "raw" or "orig"
    exitCalls,        \* number of calls of KeyPoller.__exit__
    orphans,          \* live decoder processes whose handle was dropped
    current_dir,      \* run(): last tag value acted on
    new_dir,          \* run(): tag value read in this iteration
    pc,               \* position of run() in its loop
    exit,             \* how run() ended
    msg,              \* last message printed by a handler
    last,             \* the step taken last
    pre,              \* the controller's fields before the step taken last
    at_check,         \* the controller's fields when this iteration began
    absent            \* a read gave None since current_dir was last set

vars == <<process, playing, paused, current_position, current_subdir, playlist,
          current_track, led, term, exitCalls, orphans, current_dir, new_dir,
          pc, exit, msg, last, pre, at_check, absent>>

----------------------------------------------------------------------------
(* Bounds and the file system under ./music *)

\* number of .mp3 files in playlist directory "a"
MaxTracks == 3

\* a value of None for a string
None == <<"None">>

\* absent attribute / absent handle
UnsetTrack == -1
UnsetPlaylist == <<-1>>
UnsetSubdir == <<"unset">>
NoProcess == [track |-> -1, st |-> "none"]

\* directory entries are [id, ext]; ids are in the lexicographic order of
\* the file names
DirA == <<"a">>
DirB == <<"b">>
DirE == <<"e">>
Root == <<>>

ListDir(subdir) ==
    CASE subdir = DirA -> {[id |-> 100 + i, ext |-> "mp3"] : i \in 1..MaxTracks}
                          \cup {[id |-> 100, ext |-> "jpg"]}
      [] subdir = DirB -> {[id |-> 201, ext |-> "mp3"]}
      [] subdir = DirE -> {[id |-> 301, ext |-> "txt"]}
      [] OTHER -> {}

\* os.path.isdir(os.path.join(base_dir, subdir)); joining "" gives base_dir
IsDir(subdir) == subdir \in {DirA, DirB, DirE, Root}

\* glob.glob(os.path.join(full_path, "*.mp3")), as a set of ids
Glob(subdir) == {f.id : f \in {g \in ListDir(subdir) : g.ext = "mp3"}}

RECURSIVE Sorted(_)
Sorted(S) ==
    IF S = {} THEN <<>>
    ELSE LET m == CHOOSE x \in S : \A y \in S : x <= y
         IN <<m>> \o Sorted(S \ {m})

\* str.strip()
RECURSIVE StripLeft(_)
StripLeft(s) == IF s # <<>> /\ Head(s) = " " THEN StripLeft(Tail(s)) ELSE s

RECURSIVE StripRight(_)
StripRight(s) ==
    IF s # <<>> /\ s[Len(s)] = " " THEN StripRight(SubSeq(s, 1, Len(s) - 1)) ELSE s

Strip(s) == StripRight(StripLeft(s))

\* texts a tag can carry or a user can type at the prompt
RawNames == {<<"a">>, <<"a", " ">>, <<" ", "b">>, <<"e">>, <<"x">>, <<" ">>}

\* characters poller.poll() can return
Keys == {"p", "n", "b", "c", "q", "z"}

----------------------------------------------------------------------------
(* The handlers *)

World ==
    [process |-> process, playing |-> playing, paused |-> paused,
     current_position |-> current_position, current_subdir |-> current_subdir,
     playlist |-> playlist, current_track |-> current_track, led |-> led,
     term |-> term, exitCalls |-> exitCalls, orphans |-> orphans,
     exc |-> "", msg |-> ""]

Raise(w, e) == [w EXCEPT !.exc = e]

set_play_led(w, is_on) == [w EXCEPT !.led = is_on]

\* process.terminate(); process.wait(): whether the process was live or had
\* exited, the controller has now stopped and reaped it
Terminate(p) == [p EXCEPT !.st = "terminated"]

\* a handle is dropped: its process, when live, stays behind unowned
Orphaned(p) == IF p.st = "live" THEN 1 ELSE 0

\* load_directory without the reset of the track index
load_directory_KeepIndex(w, subdir) ==
    IF ~IsDir(subdir) THEN Raise(w, "ValueError")
    ELSE LET w1 == [w EXCEPT !.current_subdir = subdir,
                             !.playlist = Sorted(Glob(subdir))]
         IN IF w1.playlist = <<>> THEN Raise(w1, "ValueError")
            ELSE IF w1.current_track = UnsetTrack
                THEN [w1 EXCEPT !.current_track = 0]
            ELSE w1

load_directory(w, subdir) ==
    IF ~IsDir(subdir) THEN Raise(w, "ValueError")
    ELSE LET w1 == [w EXCEPT !.current_subdir = subdir,
                             !.playlist = Sorted(Glob(subdir))]
         IN IF w1.playlist = <<>> THEN Raise(w1, "ValueError")
            ELSE [w1 EXCEPT !.current_track = 0]

\* self.playlist[self.current_track], with Python's negative indices
Subscript(w) ==
    IF w.playlist = UnsetPlaylist \/ w.current_track = UnsetTrack
        THEN [exc |-> "AttributeError", val |-> -1]
    ELSE IF w.current_track >= 0 /\ w.current_track < Len(w.playlist)
        THEN [exc |-> "", val |-> w.playlist[w.current_track + 1]]
    ELSE IF w.current_track < 0 /\ w.current_track >= -Len(w.playlist)
        THEN [exc |-> "", val |-> w.playlist[Len(w.playlist) + w.current_track + 1]]
    ELSE [exc |-> "IndexError", val |-> -1]

\* start_playback without self.paused = False
start_playback_KeepPaused(w, position) ==
    LET current_file == Subscript(w)
    IN IF current_file.exc # "" THEN Raise(w, current_file.exc)
       ELSE [w EXCEPT !.orphans = @ + Orphaned(w.process),
                      !.process = [track |-> current_file.val, st |-> "live"],
                      !.playing = TRUE,
                      !.led = TRUE]

start_playback(w, position) ==
    LET current_file == Subscript(w)
    IN IF current_file.exc # "" THEN Raise(w, current_file.exc)
       ELSE [w EXCEPT !.orphans = @ + Orphaned(w.process),
                      !.process = [track |-> current_file.val, st |-> "live"],
                      !.playing = TRUE,
                      !.paused = FALSE,
                      !.led = TRUE]

\* play_current_track without the stop of the held process
play_current_track_NoStop(w) ==
    start_playback([w EXCEPT !.current_position = 0], 0)

play_current_track(w) ==
    LET w1 == IF w.process # NoProcess
                  THEN [w EXCEPT !.process = Terminate(w.process)]
                  ELSE w
        w2 == [w1 EXCEPT !.current_position = 0]
    IN start_playback(w2, 0)

\* toggle_play_pause that resumes whenever it does not pause
toggle_play_pause_ResumeAlways(w) ==
    IF ~w.paused /\ w.process # NoProcess
        THEN [w EXCEPT !.current_position = 0,
                       !.orphans = @ + Orphaned(Terminate(w.process)),
                       !.process = NoProcess,
                       !.paused = TRUE,
                       !.led = FALSE,
                       !.msg = "Paused playback"]
    ELSE LET w1 == start_playback(w, w.current_position)
         IN IF w1.exc # ""
                THEN [w1 EXCEPT !.exc = "", !.msg = "Error resuming"]
                ELSE [w1 EXCEPT !.paused = FALSE, !.led = TRUE,
                                !.msg = "Resumed playback"]

\* toggle_play_pause whose pause branch does not set self.paused
toggle_play_pause_NoFlag(w) ==
    IF ~w.paused /\ w.process # NoProcess
        THEN [w EXCEPT !.current_position = 0,
                       !.orphans = @ + Orphaned(Terminate(w.process)),
                       !.process = NoProcess,
                       !.led = FALSE,
                       !.msg = "Paused playback"]
    ELSE IF w.paused
        THEN LET w1 == start_playback(w, w.current_position)
             IN IF w1.exc # ""
                    THEN [w1 EXCEPT !.exc = "", !.msg = "Error resuming"]
                    ELSE [w1 EXCEPT !.paused = FALSE, !.led = TRUE,
                                    !.msg = "Resumed playback"]
    ELSE w

toggle_play_pause(w) ==
    IF ~w.paused /\ w.process # NoProcess
        THEN [w EXCEPT !.current_position = 0,
                       !.orphans = @ + Orphaned(Terminate(w.process)),
                       !.process = NoProcess,
                       !.paused = TRUE,
                       !.led = FALSE,
                       !.msg = "Paused playback"]
    ELSE IF w.paused
        THEN LET w1 == start_playback(w, w.current_position)
             IN IF w1.exc # ""
                    THEN [w1 EXCEPT !.exc = "", !.msg = "Error resuming"]
                    ELSE [w1 EXCEPT !.paused = FALSE, !.led = TRUE,
                                    !.msg = "Resumed playback"]
    ELSE w

\* the index moved without the modulo
Advance_NoWrap(w, d) ==
    IF w.current_track = UnsetTrack \/ w.playlist = UnsetPlaylist
        THEN Raise(w, "AttributeError")
    ELSE IF Len(w.playlist) = 0 THEN Raise(w, "ZeroDivisionError")
    ELSE [w EXCEPT !.current_track = w.current_track + d]

\* (self.current_track + d) % len(self.playlist)
Advance(w, d) ==
    IF w.current_track = UnsetTrack \/ w.playlist = UnsetPlaylist
        THEN Raise(w, "AttributeError")
    ELSE IF Len(w.playlist) = 0 THEN Raise(w, "ZeroDivisionError")
    ELSE [w EXCEPT !.current_track = (w.current_track + d) % Len(w.playlist)]

next_track(w) ==
    LET w1 == Advance(w, 1)
    IN IF w1.exc # "" THEN w1 ELSE play_current_track(w1)

previous_track(w) ==
    LET w1 == Advance(w, -1)
    IN IF w1.exc # "" THEN w1 ELSE play_current_track(w1)

\* process.poll() is not None
HasExited(p) == p.st \in {"exited", "terminated"}

\* the end-of-track check left out of the iteration
check_if_track_ended_Never(w) == w

\* check_if_track_ended without the poll of the process
check_if_track_ended_NoPoll(w) ==
    IF w.process # NoProcess /\ ~w.paused
        THEN next_track(w)
        ELSE w

check_if_track_ended(w) ==
    IF w.process # NoProcess /\ HasExited(w.process) /\ ~w.paused
        THEN next_track(w)
        ELSE w

\* change_directory up to the point where the name is known (lines 132-143)
change_directory_enter(w) == [w EXCEPT !.term = "orig"]

\* change_directory without its finally clause
change_directory_finally_Skip(w) == w

\* the finally clause of change_directory
change_directory_finally(w) == [w EXCEPT !.term = "raw"]

\* change_directory from "Stop current playback" on, the name being known
change_directory_body(w, new_subdir) ==
    LET w1 == IF w.process # NoProcess
                  THEN [w EXCEPT !.orphans = @ + Orphaned(Terminate(w.process)),
                                 !.process = NoProcess]
                  ELSE w
        w2 == set_play_led(w1, FALSE)
        w3 == load_directory(w2, new_subdir)
        w4 == IF w3.exc # "" THEN w3
              ELSE play_current_track([w3 EXCEPT !.msg = "Changed to playlist"])
        w5 == IF w4.exc = "" THEN w4
              ELSE IF w4.exc = "ValueError"
                  THEN [w4 EXCEPT !.exc = "", !.msg = "ValueError"]
              ELSE [w4 EXCEPT !.exc = "", !.msg = "Error changing directory"]
    IN change_directory_finally(w5)

change_directory(w, new_subdir) ==
    change_directory_body(change_directory_enter(w), new_subdir)

\* KeyPoller.__exit__
KeyPoller_exit(w) == [w EXCEPT !.term = "orig", !.exitCalls = @ + 1]

\* the 'q' branch without the stop of the process
quit_NoTerminate(w) == [set_play_led(w, FALSE) EXCEPT !.msg = "Goodbye!"]

\* the 'q' branch of run()
quit(w) ==
    LET w1 == set_play_led(w, FALSE)
    IN [w1 EXCEPT !.process = IF w1.process # NoProcess
                                  THEN Terminate(w1.process) ELSE w1.process,
                  !.msg = "Goodbye!"]

\* the except KeyboardInterrupt clause without the stop of the process
on_interrupt_NoTerminate(w) == [w EXCEPT !.msg = "Goodbye!"]

\* the except KeyboardInterrupt clause of run()
on_interrupt(w) ==
    [w EXCEPT !.process = IF w.process # NoProcess
                              THEN Terminate(w.process) ELSE w.process,
              !.msg = "Goodbye!"]

----------------------------------------------------------------------------
(* The loop of run() *)

Snapshot ==
    [process |-> process, paused |-> paused, led |-> led, playlist |-> playlist,
     current_track |-> current_track, current_subdir |-> current_subdir,
     term |-> term, pc |-> pc, current_dir |-> current_dir]

\* what the end-of-track check of an iteration finds
AtCheck == [process |-> process, paused |-> paused, current_track |-> current_track]

Commit(w) ==
    /\ process' = w.process
    /\ playing' = w.playing
    /\ paused' = w.paused
    /\ current_position' = w.current_position
    /\ current_subdir' = w.current_subdir
    /\ playlist' = w.playlist
    /\ current_track' = w.current_track
    /\ led' = w.led
    /\ term' = w.term
    /\ exitCalls' = w.exitCalls
    /\ orphans' = w.orphans
    /\ msg' = w.msg

\* a handler has returned w: go on at position to, or leave run() when an
\* exception is pending (the loop catches KeyboardInterrupt only)
Continue(w, to) ==
    IF w.exc = ""
        THEN Commit(w) /\ pc' = to /\ exit' = exit
        ELSE Commit(KeyPoller_exit(w)) /\ pc' = "done" /\ exit' = w.exc

Init ==
    /\ process = NoProcess
    /\ playing = FALSE
    /\ paused = FALSE
    /\ current_position = 0
    /\ current_subdir = UnsetSubdir
    /\ playlist = UnsetPlaylist
    /\ current_track = UnsetTrack
    /\ led = FALSE
    /\ term = "raw"
    /\ exitCalls = 0
    /\ orphans = 0
    /\ current_dir = None
    /\ new_dir = None
    /\ pc = "check"
    /\ exit = "none"
    /\ msg = ""
    /\ last = [op |-> "init", name |-> None]
    /\ pre = [process |-> NoProcess, paused |-> FALSE, led |-> FALSE,
              playlist |-> UnsetPlaylist, current_track |-> UnsetTrack,
              current_subdir |-> UnsetSubdir, term |-> "raw", pc |-> "check",
              current_dir |-> None]
    /\ at_check = [process |-> NoProcess, paused |-> FALSE,
                   current_track |-> UnsetTrack]
    /\ absent = FALSE

\* self.check_if_track_ended()
CheckIfTrackEnded ==
    /\ pc = "check"
    /\ Continue(check_if_track_ended(World), "read")
    /\ last' = [op |-> "check", name |-> None]
    /\ pre' = Snapshot
    /\ at_check' = AtCheck
    /\ UNCHANGED <<current_dir, new_dir, absent>>

\* id, new_dir = reader.read_no_block(), stripped when not None
ReadTag ==
    /\ pc = "read"
    /\ \/ new_dir' = None
       \/ \E text \in RawNames : new_dir' = Strip(text)
    /\ pc' = "poll"
    /\ last' = [op |-> "read", name |-> new_dir']
    /\ pre' = Snapshot
    /\ absent' = (absent \/ (new_dir' = None /\ current_dir # None))
    /\ UNCHANGED <<process, playing, paused, current_position, current_subdir,
                   playlist, current_track, led, term, exitCalls, orphans,
                   current_dir, exit, msg, at_check>>

\* poller.poll() returned nothing
PollNone ==
    /\ pc = "poll"
    /\ pc' = "tag"
    /\ last' = [op |-> "nokey", name |-> None]
    /\ pre' = Snapshot
    /\ UNCHANGED <<process, playing, paused, current_position, current_subdir,
                   playlist, current_track, led, term, exitCalls, orphans,
                   current_dir, new_dir, exit, msg, at_check, absent>>

\* poller.poll() returned char: the if/elif chain of run()
Dispatch(char) ==
    /\ pc = "poll"
    /\ CASE char = "p" -> Continue(toggle_play_pause(World), "tag")
         [] char = "n" -> Continue(next_track(World), "tag")
         [] char = "b" -> Continue(previous_track(World), "tag")
         [] char = "c" -> Continue(change_directory_enter(World), "prompt")
         [] char = "q" -> /\ Commit(KeyPoller_exit(quit(World)))
                          /\ pc' = "done"
                          /\ exit' = "q"
         [] OTHER -> Continue(World, "tag")
    /\ last' = [op |-> char, name |-> None]
    /\ pre' = Snapshot
    /\ UNCHANGED <<current_dir, new_dir, at_check, absent>>

PollKey == \E char \in Keys : Dispatch(char)

\* input() of change_directory returned text
Prompt(text) ==
    /\ pc = "prompt"
    /\ Continue(change_directory_body(World, Strip(text)), "tag")
    /\ last' = [op |-> "change", name |-> Strip(text)]
    /\ pre' = Snapshot
    /\ UNCHANGED <<current_dir, new_dir, at_check, absent>>

PromptInput == \E text \in RawNames : Prompt(text)

\* the tag test that runs change_directory on every tag that is present
TagChanged_NoCompare(nd, cd) == nd # None

\* if new_dir != current_dir: if new_dir != None:
TagChanged(nd, cd) == nd # cd /\ nd # None

\* the last-seen tag assigned outside the test for None
NextCurrentDir_Clear(nd, cd) == IF nd # cd THEN nd ELSE cd

\* current_dir = new_dir, inside both tests
NextCurrentDir(nd, cd) == IF nd # cd /\ nd # None THEN nd ELSE cd

\* the end of an iteration: the tag read is compared with the last one
TagChange ==
    /\ pc = "tag"
    /\ current_dir' = NextCurrentDir(new_dir, current_dir)
    /\ IF TagChanged(new_dir, current_dir)
           THEN /\ Continue(change_directory(World, new_dir), "check")
                /\ last' = [op |-> "tagchange", name |-> new_dir]
                /\ absent' = FALSE
           ELSE /\ Continue(World, "check")
                /\ last' = [op |-> "notag", name |-> None]
                /\ absent' = absent
    /\ pre' = Snapshot
    /\ UNCHANGED <<new_dir, at_check>>

\* KeyboardInterrupt raised in the loop; inside change_directory it passes
\* through the finally clause first
Interrupt ==
    /\ pc \in {"check", "read", "poll", "tag", "prompt"}
    /\ LET w == IF pc = "prompt" THEN change_directory_finally(World) ELSE World
       IN Commit(KeyPoller_exit(on_interrupt(w)))
    /\ pc' = "done"
    /\ exit' = "KeyboardInterrupt"
    /\ last' = [op |-> "interrupt", name |-> None]
    /\ pre' = Snapshot
    /\ UNCHANGED <<current_dir, new_dir, at_check, absent>>

\* the decoder reaches the end of its file and exits
BackendExits ==
    /\ pc # "done"
    /\ process # NoProcess
    /\ process.st = "live"
    /\ process' = [process EXCEPT !.st = "exited"]
    /\ last' = [op |-> "backend_exit", name |-> None]
    /\ pre' = Snapshot
    /\ UNCHANGED <<playing, paused, current_position, current_subdir, playlist,
                   current_track, led, term, exitCalls, orphans, current_dir,
                   new_dir, pc, exit, msg, at_check, absent>>

Next ==
    \/ CheckIfTrackEnded
    \/ ReadTag
    \/ PollNone
    \/ PollKey
    \/ PromptInput
    \/ TagChange
    \/ Interrupt
    \/ BackendExits

Spec == Init /\ [][Next]_vars

TypeOK ==
    /\ pc \in {"check", "read", "poll", "tag", "prompt", "done"}
    /\ term \in {"raw", "orig"}
    /\ led \in BOOLEAN
    /\ paused \in BOOLEAN
    /\ orphans \in Nat

----------------------------------------------------------------------------
(* Vocabulary of the properties *)

\* the step taken last ran change_directory to its end with this name
ChangeRan == last.op \in {"change", "tagchange"}

HadPlaylist == pre.current_track # UnsetTrack
WasPlaying == pre.process # NoProcess /\ ~pre.paused
WasPaused == pre.paused
WasStopped == pre.process = NoProcess /\ ~pre.paused

\* the sequence s lists the set S in strictly ascending order
IsSortedListing(s, S) ==
    /\ Len(s) = Cardinality(S)
    /\ {s[i] : i \in 1..Len(s)} = S
    /\ \A i \in 1..Len(s) - 1 : s[i] < s[i + 1]

\* C1: change_directory with a name that is no subdirectory, or a
\* subdirectory without .mp3 files, from Playing or Paused, leaves the
\* track index, the track list and the playback state (process handle,
\* paused flag, LED) as they were and reports an error.
C1_FailedChangeKeepsState ==
    (/\ ChangeRan
     /\ ~IsDir(last.name) \/ Glob(last.name) = {}
     /\ HadPlaylist
     /\ WasPlaying \/ WasPaused)
    => /\ msg = "ValueError"
       /\ current_track = pre.current_track
       /\ playlist = pre.playlist
       /\ process = pre.process
       /\ paused = pre.paused
       /\ led = pre.led

\* C2: on a non-empty track list of length N at index i, next_track moves
\* to i+1, or to 0 from N-1, and previous_track to i-1, or to N-1 from 0;
\* the track at the new index is then the one being played.
C2_NextPreviousWrap ==
    LET N == Len(pre.playlist)
        i == pre.current_track
    IN (last.op \in {"n", "b"} /\ HadPlaylist /\ pre.playlist # <<>>)
       => /\ exit = "none"
          /\ playlist = pre.playlist
          /\ current_track \in 0..N - 1
          /\ last.op = "n" => current_track = (IF i = N - 1 THEN 0 ELSE i + 1)
          /\ last.op = "b" => current_track = (IF i = 0 THEN N - 1 ELSE i - 1)
          /\ process.st = "live"
          /\ process.track = playlist[current_track + 1]

C2_Witness ==
    /\ last.op = "b"
    /\ Len(pre.playlist) = MaxTracks
    /\ pre.current_track = 0
    /\ current_track = MaxTracks - 1
    /\ process.st = "live"

\* C3: the loop of run() ends only through 'q' or an interrupt.
C3_LoopEndsOnlyByQuitOrInterrupt ==
    pc = "done" => exit \in {"q", "KeyboardInterrupt"}

\* C4: once a track list has been loaded, the track list is non-empty and
\* the track index is within it.
C4_IndexInRange ==
    current_track # UnsetTrack
    => /\ playlist # <<>>
       /\ current_track \in 0..Len(playlist) - 1

\* C5: loading an existing subdirectory without .mp3 files fails and leaves
\* the track list, the subdirectory name and the track index as they were.
C5_EmptyLoadKeepsFields ==
    (ChangeRan /\ HadPlaylist /\ IsDir(last.name) /\ Glob(last.name) = {})
    => /\ msg = "ValueError"
       /\ playlist = pre.playlist
       /\ current_subdir = pre.current_subdir
       /\ current_track = pre.current_track

\* C6: change_directory with a subdirectory that has .mp3 files, from any
\* state, makes the track list that directory's files in sorted order, the
\* index 0, and ends Playing on track 0: paused false, one live process,
\* the previous one stopped.
C6_ValidChangePlaysFirst ==
    (ChangeRan /\ IsDir(last.name) /\ Glob(last.name) # {})
    => /\ exit = "none"
       /\ IsSortedListing(playlist, Glob(last.name))
       /\ current_subdir = last.name
       /\ current_track = 0
       /\ ~paused
       /\ process.st = "live"
       /\ process.track = playlist[1]
       /\ orphans = 0

C6_Witness ==
    /\ ChangeRan
    /\ WasPlaying
    /\ pre.process.st = "live"
    /\ pre.current_track > 0
    /\ playlist # pre.playlist
    /\ current_track = 0
    /\ process.st = "live"

\* C7: the end-of-track check advances the index once for a backend exit:
\* the check that finds the held process exited while Playing moves to the
\* next track and holds a new live process; a check that finds no exit
\* changes neither the index nor the handle.
C7_AdvanceOncePerExit ==
    LET N == Len(pre.playlist)
        i == pre.current_track
    IN last.op = "check"
       => /\ exit = "none"
          /\ IF pre.process # NoProcess /\ pre.process.st # "live" /\ ~pre.paused
                THEN /\ current_track = (IF i = N - 1 THEN 0 ELSE i + 1)
                     /\ process.st = "live"
                     /\ process.track = playlist[current_track + 1]
                ELSE /\ current_track = pre.current_track
                     /\ process = pre.process

C7_Witness ==
    /\ last.op = "check"
    /\ pre.process.st = "exited"
    /\ ~pre.paused
    /\ current_track = pre.current_track + 1
    /\ process.st = "live"

\* C8: after 'q', from any state, no backend process is live and the
\* terminal is in its saved original mode, restored by one __exit__.
C8_QuitCleansUp ==
    exit = "q"
    => /\ pc = "done"
       /\ process.st # "live"
       /\ orphans = 0
       /\ term = "orig"
       /\ exitCalls = 1

C8_Witness ==
    /\ exit = "q"
    /\ pre.process.st = "live"
    /\ pre.term = "raw"
    /\ process.st = "terminated"

\* C9: toggle_play_pause applied twice from Playing ends in Playing with one
\* live process on the same track; the index is the same before, between
\* and after.
C9_DoubleToggle ==
    (pc # "done" /\ process # NoProcess /\ ~paused)
    => LET w1 == toggle_play_pause(World)
           w2 == toggle_play_pause(w1)
       IN /\ w1.paused
          /\ w1.process = NoProcess
          /\ w1.current_track = current_track
          /\ ~w2.paused
          /\ w2.process.st = "live"
          /\ w2.process.track = playlist[current_track + 1]
          /\ w2.current_track = current_track
          /\ w2.orphans = 0
          /\ w2.exc = ""

\* the second of two toggles has run
C9_Witness ==
    /\ last.op = "p"
    /\ pre.paused
    /\ msg = "Resumed playback"
    /\ ~paused
    /\ process.st = "live"
    /\ current_track = pre.current_track
    /\ current_track > 0

\* C10: in every state, the final one included, the LED is high exactly
\* when the controller holds a process it has not stopped and is not paused.
C10_LedIffSounding ==
    led <=> (process # NoProcess /\ process.st # "terminated" /\ ~paused)

\* the step taken last was the tag comparison that ends an iteration
TagStep == last.op \in {"tagchange", "notag"}

\* the fields of the controller are as they were before the step taken last
ControllerUnchanged ==
    /\ process = pre.process
    /\ paused = pre.paused
    /\ led = pre.led
    /\ playlist = pre.playlist
    /\ current_track = pre.current_track
    /\ current_subdir = pre.current_subdir

\* C11: a tag read triggers change_directory only when its value differs
\* from the last-seen tag value; a tag that stays present over consecutive
\* iterations triggers it at most once.
C11_TagTriggersOnChangeOnly ==
    TagStep
    => /\ last.op = "tagchange" <=> (new_dir # None /\ new_dir # pre.current_dir)
       /\ last.op = "tagchange" => current_dir = new_dir /\ last.name = new_dir
       /\ new_dir = pre.current_dir => last.op = "notag" /\ ControllerUnchanged

\* the tag that started the playing playlist is read again and does nothing
C11_Witness ==
    /\ last.op = "notag"
    /\ new_dir # None
    /\ new_dir = current_dir
    /\ ~absent
    /\ current_subdir = current_dir
    /\ process.st = "live"

\* C12: an interrupt at any point of the loop, the prompt of
\* change_directory included, and every other way out of the loop, an
\* uncaught exception included, leaves no live backend process and the
\* terminal in its saved original mode.
C12_EveryExitCleansUp ==
    /\ pc = "done" <=> exit # "none"
    /\ pc = "done"
       => /\ process.st # "live"
          /\ orphans = 0
          /\ term = "orig"
          /\ exitCalls = 1

\* the interrupt arrived at the prompt while a track was playing
C12_Witness ==
    /\ exit = "KeyboardInterrupt"
    /\ pre.pc = "prompt"
    /\ pre.term = "orig"
    /\ pre.process.st = "live"
    /\ process.st = "terminated"
    /\ term = "orig"

\* no process handle is held and paused is false
Stopped == process = NoProcess /\ ~paused

\* C13: from Playing or Paused no pause toggle, next, previous,
\* auto-advance or playlist change, successful or failed, ends in Stopped.
C13_NeverBackToStopped ==
    (/\ last.op \in {"p", "n", "b", "check", "change", "tagchange"}
     /\ exit = "none"
     /\ WasPlaying \/ WasPaused)
    => ~Stopped

\* decoder processes that are live, held or not
LiveProcesses == orphans + (IF process.st = "live" THEN 1 ELSE 0)

\* C14: at most one decoder process is live at any time, and no live
\* process is without the controller holding its handle: a process is
\* spawned only after the one held before was terminated and waited for.
C14_OneLiveProcess ==
    /\ orphans = 0
    /\ LiveProcesses <= 1
    /\ paused => process = NoProcess

\* a track was started while another one was still playing
C14_Witness ==
    /\ last.op \in {"n", "b"}
    /\ pre.process.st = "live"
    /\ process.st = "live"
    /\ process.track # pre.process.track
    /\ orphans = 0

\* the index after i in a list of n tracks, and the one before
Succ(i, n) == IF i = n - 1 THEN 0 ELSE i + 1
Pred(i, n) == IF i = 0 THEN n - 1 ELSE i - 1

C16_NextPreviousEndPlaying ==
    (last.op \in {"n", "b"} /\ pre.playlist # UnsetPlaylist /\ pre.playlist # <<>>)
    => /\ exit = "none"
       /\ ~paused
       /\ playing
       /\ process.st = "live"
       /\ process.track = playlist[current_track + 1]
       /\ led
       /\ LiveProcesses = 1

\* 'b' while Paused on the first track
C16_Witness ==
    /\ last.op = "b"
    /\ pre.paused
    /\ pre.process = NoProcess
    /\ ~pre.led
    /\ pre.current_track = 0
    /\ current_track = MaxTracks - 1
    /\ ~paused
    /\ led
    /\ process.st = "live"

C18_LastTagNeverCleared ==
    /\ current_dir # pre.current_dir
       => /\ last.op = "tagchange"
          /\ current_dir = new_dir
          /\ current_dir # None
    /\ pre.current_dir # None => current_dir # None
    /\ absent => current_dir # None
    /\ (TagStep /\ new_dir = pre.current_dir)
       => /\ last.op = "notag"
          /\ current_dir = pre.current_dir
          /\ ControllerUnchanged

\* tag "a" was read, taken away, the 'c' key switched to "b", and tag "a"
\* is read again: "b" keeps playing
C18_Witness ==
    /\ last.op = "notag"
    /\ absent
    /\ new_dir = DirA
    /\ current_dir = DirA
    /\ current_subdir = DirB
    /\ process.st = "live"

\* C19: in the Stopped state, at startup and after a change_directory that
\* failed while Playing, the 'p' key and the end-of-track check change
\* nothing: no process is started, paused stays false, the LED stays low
\* and the index is unchanged; playback starts again only through next,
\* previous or a successful playlist change.
C19_StoppedIgnoresToggleAndCheck ==
    /\ (Stopped /\ exit = "none") => ~led
    /\ (last.op \in {"p", "check"} /\ WasStopped)
       => /\ exit = "none"
          /\ Stopped
          /\ ~led
          /\ ControllerUnchanged
    /\ (WasStopped /\ process # NoProcess)
       => /\ last.op \in {"n", "b", "change", "tagchange"}
          /\ ChangeRan => msg = "Changed to playlist"

\* 'p' after a change that failed while "a" was playing
C19_Witness ==
    /\ last.op = "p"
    /\ WasStopped
    /\ current_subdir = DirA
    /\ playlist # <<>>
    /\ current_track # UnsetTrack
    /\ Stopped
    /\ ~led

====
